---------------------------- MODULE Spec2Model ----------------------------
(***************************************************************************)
(* Tic Tac Total (src/main.py): a 3x3 number-placement game.  Every        *)
(* browser session owns one game_state dictionary (st.session_state);      *)
(* sessions in multiplayer mode exchange whole dictionaries through a      *)
(* shared key-value store addressed by room id (db.reference(...).set/get).*)
(*                                                                         *)
(* Python None is modelled by NoneDigit (0) where the field holds a digit  *)
(* and by NoneStr ("None") where it holds a string.  The store is modelled *)
(* as returning from get() exactly the dictionary last handed to set().    *)
(***************************************************************************)
EXTENDS Integers, Sequences, FiniteSets, TLC

VARIABLES
    gs,     \* session -> that session's st.session_state.game_state
    store,  \* room id -> the dictionary stored under games/<room id>
    cw      \* a check_winner call on arbitrary arguments (SpecWinner only)

vars == <<gs, store, cw>>

(***************************************************************************)
(* Bounds of the exploration                                               *)
(***************************************************************************)
\* a chooser (a human or random.choice) takes one of the first
\* MaxCellChoices empty cells in CellOrder ...
MaxCellChoices == 2
\* ... and the first unused digit in DigitOrder
\* in SpecRoom a session plays against the computer, and in SpecCalls a
\* handler places a digit, only while the board holds fewer than
\* MaxSoloPlaced digits
MaxSoloPlaced == 2

CellOrder == <<0, 1, 2, 3, 4, 6, 8, 5, 7>>
DigitOrder == <<9, 2, 6, 5, 1, 7, 3, 8, 4>>
RoomIds == {"game_4521"}
Sessions == {"s1", "s2"}

(***************************************************************************)
(* Values                                                                  *)
(***************************************************************************)
NoneDigit == 0
NoneStr == "None"
Cells == 0..8
Digits == 1..9

P1WINS == "Player 1 wins!"
P2WINS == "Player 2 wins!"
COMPUTERWINS == "Player 2 (Computer) wins!"
DRAW == "It's a draw!"

InitialGameState ==
    [board |-> [i \in Cells |-> NoneDigit],
     current_player |-> "Player 1",
     player1_numbers |-> <<>>,
     player2_numbers |-> <<>>,
     selected_number |-> NoneDigit,
     winner |-> NoneStr,
     target1 |-> 16,
     target2 |-> 14,
     used_numbers |-> <<>>,
     game_mode |-> "computer",
     room_id |-> NoneStr,
     player_role |-> NoneStr,
     message |-> "Welcome to Tic Tac Total!"]

(***************************************************************************)
(* Python list helpers                                                     *)
(***************************************************************************)
\* x in lst
InList(x, lst) == \E k \in 1..Len(lst) : lst[k] = x

RECURSIVE SumList(_)
\* sum(lst)
SumList(lst) == IF lst = <<>> THEN 0 ELSE Head(lst) + SumList(Tail(lst))

RECURSIVE FirstK(_, _, _)
\* the first k entries of seq that belong to the set S
FirstK(seq, S, k) ==
    IF k = 0 \/ seq = <<>> THEN {}
    ELSE IF Head(seq) \in S THEN {Head(seq)} \cup FirstK(Tail(seq), S, k - 1)
    ELSE FirstK(Tail(seq), S, k)

(***************************************************************************)
(* check_winner                                                            *)
(***************************************************************************)
win_conditions ==
    << <<0, 1, 2>>, <<3, 4, 5>>, <<6, 7, 8>>,
       <<0, 3, 6>>, <<1, 4, 7>>, <<2, 5, 8>>,
       <<0, 4, 8>>, <<2, 4, 6>> >>

\* [current_board[i] for i in condition if current_board[i] is not None]
line_numbers_on_board(current_board, condition) ==
    LET IsPlaced(v) == v # NoneDigit
    IN SelectSeq([k \in 1..3 |-> current_board[condition[k]]], IsPlaced)

\* fault: the digits of the line are not filtered by owner
player_specific_line_any_owner(current_board, condition, player_numbers) ==
    line_numbers_on_board(current_board, condition)

\* [num for num in line_numbers_on_board if num in player_numbers]
player_specific_line(current_board, condition, player_numbers) ==
    LET IsOwn(v) == InList(v, player_numbers)
    IN SelectSeq(line_numbers_on_board(current_board, condition), IsOwn)

\* fault: any three digits on a line count, whoever placed them
check_winner_any_owner(current_board, player_numbers, target_sum) ==
    \E c \in 1..Len(win_conditions) :
        LET line == line_numbers_on_board(current_board, win_conditions[c])
        IN Len(line) = 3 /\ SumList(line) = target_sum

check_winner(current_board, player_numbers, target_sum) ==
    \E c \in 1..Len(win_conditions) :
        LET line == player_specific_line(current_board, win_conditions[c],
                                         player_numbers)
        IN Len(line) = 3 /\ SumList(line) = target_sum

(***************************************************************************)
(* select_number                                                           *)
(***************************************************************************)
\* fault: a used digit is accepted
select_number_no_used_check(g, number) ==
    IF g.winner # NoneStr
    THEN [g EXCEPT !.message = "Game is over. Reset to play again."]
    ELSE [g EXCEPT !.selected_number = number,
                   !.message = "You selected " \o ToString(number)
                        \o ". Now click an empty square on the board."]

\* fault: a digit is accepted after the game is over
select_number_ignores_winner(g, number) ==
    IF InList(number, g.used_numbers)
    THEN [g EXCEPT !.message =
            "This number has already been used. Please select another."]
    ELSE [g EXCEPT !.selected_number = number,
                   !.message = "You selected " \o ToString(number)
                        \o ". Now click an empty square on the board."]

select_number(g, number) ==
    IF InList(number, g.used_numbers)
    THEN [g EXCEPT !.message =
            "This number has already been used. Please select another."]
    ELSE IF g.winner # NoneStr
    THEN [g EXCEPT !.message = "Game is over. Reset to play again."]
    ELSE [g EXCEPT !.selected_number = number,
                   !.message = "You selected " \o ToString(number)
                        \o ". Now click an empty square on the board."]

(***************************************************************************)
(* Shared store                                                            *)
(***************************************************************************)
\* fault: a list that arrives empty keeps its local value
dict_update_skips_empty(g, data) ==
    [k \in DOMAIN g |->
        IF k \notin DOMAIN data THEN g[k]
        ELSE IF k \in {"used_numbers", "player1_numbers", "player2_numbers"}
        THEN (IF data[k] = <<>> THEN g[k] ELSE data[k])
        ELSE data[k]]

\* dict.update(data): every key of data overwrites the local value
dict_update(g, data) ==
    [k \in DOMAIN g |-> IF k \in DOMAIN data THEN data[k] ELSE g[k]]

\* fault: a write that would drop stored digits is refused
store_set_keeps_longer(st, room, g) ==
    IF room \in DOMAIN st
       /\ Len(st[room].used_numbers) > Len(g.used_numbers)
    THEN st
    ELSE [r \in DOMAIN st \cup {room} |-> IF r = room THEN g ELSE st[r]]

\* ref.set(game_state) on games/<room>
store_set(st, room, g) ==
    [r \in DOMAIN st \cup {room} |-> IF r = room THEN g ELSE st[r]]

\* fault: the failing write still replaces the stored dictionary
update_firebase_game_state_half_written(g, st, ok) ==
    IF g.room_id # NoneStr
    THEN IF ok
         THEN <<[g EXCEPT !.message = "Game state updated in Firebase."],
                store_set(st, g.room_id, g)>>
         ELSE <<[g EXCEPT !.message = "Error updating Firebase"],
                store_set(st, g.room_id, g)>>
    ELSE <<g, st>>

\* update_firebase_game_state; ok = FALSE is ref.set raising.
\* Yields <<local game state, store>>.
update_firebase_game_state(g, st, ok) ==
    IF g.room_id # NoneStr
    THEN IF ok
         THEN <<[g EXCEPT !.message = "Game state updated in Firebase."],
                store_set(st, g.room_id, g)>>
         ELSE <<[g EXCEPT !.message = "Error updating Firebase"], st>>
    ELSE <<g, st>>

\* get_firebase_game_state; ok = FALSE is ref.get raising
get_firebase_game_state(g, st, ok) ==
    IF g.room_id # NoneStr
    THEN IF ok
         THEN IF g.room_id \in DOMAIN st
              THEN [dict_update(g, st[g.room_id]) EXCEPT
                       !.message = "Game state synced from Firebase."]
              ELSE [g EXCEPT
                       !.message = "No game found for this Room ID. Please create or join a valid room.",
                       !.room_id = NoneStr]
         ELSE [g EXCEPT !.message = "Error fetching from Firebase"]
    ELSE g

(***************************************************************************)
(* computer_move                                                           *)
(***************************************************************************)
\* fault: the computer draws from all nine cells
available_moves_any_cell(g) == Cells

\* [i for i, val in enumerate(board) if val is None]
available_moves(g) == {i \in Cells : g.board[i] = NoneDigit}

\* fault: the computer draws from all nine digits
available_numbers_unfiltered(g) == Digits

\* [num for num in range(1, 10) if num not in used_numbers]
available_numbers(g) == {num \in Digits : ~InList(num, g.used_numbers)}

\* the outcomes of random.choice explored by the model
CellChoices(S) == FirstK(CellOrder, S, MaxCellChoices)
DigitChoices(S) == FirstK(DigitOrder, S, 1)

\* fault: a full board is never noticed
board_full_never(g) == FALSE

\* fault: the board counts as full one digit early
board_full_off_by_one(g) == Len(g.used_numbers) = 8

\* len(used_numbers) == 9
board_full(g) == Len(g.used_numbers) = 9

\* fault: the computer's digit is not recorded as Player 2's
computer_record_untracked(g, move_index, chosen_number) ==
    [g EXCEPT !.board[move_index] = chosen_number,
              !.used_numbers = Append(@, chosen_number)]

\* lines 177-179: the computer places chosen_number at move_index
computer_record(g, move_index, chosen_number) ==
    [g EXCEPT !.board[move_index] = chosen_number,
              !.used_numbers = Append(@, chosen_number),
              !.player2_numbers = Append(@, chosen_number)]

\* lines 181-190: the result of the computer's placement
computer_evaluate(g1) ==
    IF check_winner(g1.board, g1.player2_numbers, g1.target2)
    THEN [g1 EXCEPT !.winner = COMPUTERWINS,
                    !.message = "Computer wins! Game Over."]
    ELSE IF board_full(g1)
    THEN [g1 EXCEPT !.winner = DRAW,
                    !.message = "It's a draw! Game Over."]
    ELSE [g1 EXCEPT !.current_player = "Player 1",
                    !.message = "Player 1's turn."]

computer_place(g, move_index, chosen_number) ==
    computer_evaluate(computer_record(g, move_index, chosen_number))

\* the set of game states computer_move can leave behind
computer_move(g) ==
    IF g.winner # NoneStr THEN {g}
    ELSE IF available_moves(g) # {} /\ available_numbers(g) # {}
    THEN {computer_place(g, move_index, chosen_number) :
             move_index \in CellChoices(available_moves(g)),
             chosen_number \in DigitChoices(available_numbers(g))}
    ELSE {[g EXCEPT !.winner = DRAW,
                    !.message = "It's a draw! Game Over."]}

(***************************************************************************)
(* make_move                                                               *)
(***************************************************************************)
\* fault: an occupied cell is not refused
move_rejected_ignores_occupied(g, index) ==
    \/ g.winner # NoneStr
    \/ g.selected_number = NoneDigit

\* lines 111-119: the move is refused
move_rejected(g, index) ==
    \/ g.winner # NoneStr
    \/ g.selected_number = NoneDigit
    \/ g.board[index] # NoneDigit

reject_message(g, index) ==
    IF g.winner # NoneStr THEN "Game is already over."
    ELSE IF g.selected_number = NoneDigit THEN "Please select a number first."
    ELSE "This spot is already taken."

\* fault: the selected number is not cleared by the placement
record_move_keeps_selected(g, index) ==
    LET selected_number == g.selected_number
        current_player == g.current_player
    IN [g EXCEPT !.board[index] = selected_number,
                 !.used_numbers = Append(@, selected_number),
                 !.player1_numbers =
                     IF current_player = "Player 1"
                     THEN Append(@, selected_number) ELSE @,
                 !.player2_numbers =
                     IF current_player = "Player 1"
                     THEN @ ELSE Append(@, selected_number)]

\* lines 121-135: place the selected number for the current player
record_move(g, index) ==
    LET selected_number == g.selected_number
        current_player == g.current_player
    IN [g EXCEPT !.board[index] = selected_number,
                 !.used_numbers = Append(@, selected_number),
                 !.player1_numbers =
                     IF current_player = "Player 1"
                     THEN Append(@, selected_number) ELSE @,
                 !.player2_numbers =
                     IF current_player = "Player 1"
                     THEN @ ELSE Append(@, selected_number),
                 !.selected_number = NoneDigit]

\* fault: the draw is tested before the wins
evaluate_move_draw_first(g1, current_player) ==
    IF board_full(g1)
    THEN [g1 EXCEPT !.winner = DRAW,
                    !.message = "It's a draw! Game Over."]
    ELSE IF check_winner(g1.board, g1.player1_numbers, g1.target1)
    THEN [g1 EXCEPT !.winner = P1WINS,
                    !.message = "Player 1 wins! Game Over."]
    ELSE IF check_winner(g1.board, g1.player2_numbers, g1.target2)
    THEN [g1 EXCEPT !.winner = P2WINS,
                    !.message = "Player 2 wins! Game Over."]
    ELSE LET next == IF current_player = "Player 1"
                     THEN "Player 2" ELSE "Player 1"
         IN [g1 EXCEPT !.current_player = next,
                       !.message = next \o "'s turn."]

\* fault: Player 1's line is tested against Player 2's target
evaluate_move_wrong_target(g1, current_player) ==
    IF check_winner(g1.board, g1.player1_numbers, g1.target2)
    THEN [g1 EXCEPT !.winner = P1WINS,
                    !.message = "Player 1 wins! Game Over."]
    ELSE IF check_winner(g1.board, g1.player2_numbers, g1.target2)
    THEN [g1 EXCEPT !.winner = P2WINS,
                    !.message = "Player 2 wins! Game Over."]
    ELSE IF board_full(g1)
    THEN [g1 EXCEPT !.winner = DRAW,
                    !.message = "It's a draw! Game Over."]
    ELSE LET next == IF current_player = "Player 1"
                     THEN "Player 2" ELSE "Player 1"
         IN [g1 EXCEPT !.current_player = next,
                       !.message = next \o "'s turn."]

\* fault: the turn is not handed over after a placement
evaluate_move_keeps_turn(g1, current_player) ==
    IF check_winner(g1.board, g1.player1_numbers, g1.target1)
    THEN [g1 EXCEPT !.winner = P1WINS,
                    !.message = "Player 1 wins! Game Over."]
    ELSE IF check_winner(g1.board, g1.player2_numbers, g1.target2)
    THEN [g1 EXCEPT !.winner = P2WINS,
                    !.message = "Player 2 wins! Game Over."]
    ELSE IF board_full(g1)
    THEN [g1 EXCEPT !.winner = DRAW,
                    !.message = "It's a draw! Game Over."]
    ELSE [g1 EXCEPT !.message = current_player \o "'s turn."]

\* lines 137-150: the result of the placement; current_player is the mover
evaluate_move(g1, current_player) ==
    IF check_winner(g1.board, g1.player1_numbers, g1.target1)
    THEN [g1 EXCEPT !.winner = P1WINS,
                    !.message = "Player 1 wins! Game Over."]
    ELSE IF check_winner(g1.board, g1.player2_numbers, g1.target2)
    THEN [g1 EXCEPT !.winner = P2WINS,
                    !.message = "Player 2 wins! Game Over."]
    ELSE IF board_full(g1)
    THEN [g1 EXCEPT !.winner = DRAW,
                    !.message = "It's a draw! Game Over."]
    ELSE LET next == IF current_player = "Player 1"
                     THEN "Player 2" ELSE "Player 1"
         IN [g1 EXCEPT !.current_player = next,
                       !.message = next \o "'s turn."]

place_selected(g, index) ==
    evaluate_move(record_move(g, index), g.current_player)

\* fault: a placement in a room is not pushed
make_move_no_push(g, st, index) ==
    IF move_rejected(g, index)
    THEN {<<[g EXCEPT !.message = reject_message(g, index)], st>>}
    ELSE LET g2 == place_selected(g, index)
         IN IF g2.game_mode = "computer" /\ g2.winner = NoneStr
            THEN UNION {{<<g3, st>> : g3 \in computer_move(placed)} :
                           placed \in {g2}}
            ELSE {<<g2, st>>}

\* fault: the computer does not reply
make_move_no_reply(g, st, index) ==
    IF move_rejected(g, index)
    THEN {<<[g EXCEPT !.message = reject_message(g, index)], st>>}
    ELSE LET g2 == place_selected(g, index)
         IN IF g2.game_mode = "player" /\ g2.room_id # NoneStr
            THEN {update_firebase_game_state(g2, st, ok) : ok \in BOOLEAN}
            ELSE {<<g2, st>>}

\* the set of <<game state, store>> pairs make_move can leave behind;
\* computer_move (line 157) runs on the game as the placement left it
make_move(g, st, index) ==
    IF move_rejected(g, index)
    THEN {<<[g EXCEPT !.message = reject_message(g, index)], st>>}
    ELSE LET g2 == place_selected(g, index)
         IN IF g2.game_mode = "player" /\ g2.room_id # NoneStr
            THEN {update_firebase_game_state(g2, st, ok) : ok \in BOOLEAN}
            ELSE IF g2.game_mode = "computer" /\ g2.winner = NoneStr
            THEN UNION {{<<g3, st>> : g3 \in computer_move(placed)} :
                           placed \in {g2}}
            ELSE {<<g2, st>>}

(***************************************************************************)
(* reset_game, create_room, join_room, game mode switch                    *)
(***************************************************************************)
\* fault: the reset also forgets the room
fresh_game_state_drops_room(g) ==
    [InitialGameState EXCEPT
        !.game_mode = g.game_mode,
        !.message = IF g.game_mode = "computer"
                    THEN "Game reset. Player 1's turn."
                    ELSE "Game reset. Waiting for players."]

\* lines 203-218
fresh_game_state(g) ==
    [InitialGameState EXCEPT
        !.game_mode = g.game_mode,
        !.room_id = g.room_id,
        !.player_role = g.player_role,
        !.message = IF g.game_mode = "computer"
                    THEN "Game reset. Player 1's turn."
                    ELSE "Game reset. Waiting for players."]

\* the set of <<game state, store>> pairs reset_game can leave behind
reset_game(g, st) ==
    LET g1 == fresh_game_state(g)
    IN IF g1.game_mode = "player" /\ g1.room_id # NoneStr
       THEN {update_firebase_game_state(g1, st, ok) : ok \in BOOLEAN}
       ELSE {<<g1, st>>}

create_room(g, st, new_room_id) ==
    LET g1 == [g EXCEPT !.room_id = new_room_id,
                        !.game_mode = "player",
                        !.player_role = "host",
                        !.message = "Room created: " \o new_room_id
                            \o ". Share this ID with your opponent!"]
    IN {update_firebase_game_state(g1, st, ok) : ok \in BOOLEAN}

\* ok = FALSE is ref.get raising
join_room(g, st, room_id_input, ok) ==
    IF room_id_input = ""
    THEN [g EXCEPT !.message = "Please enter a Room ID to join."]
    ELSE IF ~ok
    THEN [g EXCEPT !.message = "Error joining room"]
    ELSE IF room_id_input \in DOMAIN st
    THEN [dict_update(g, st[room_id_input]) EXCEPT
             !.room_id = room_id_input,
             !.game_mode = "player",
             !.player_role = "joiner",
             !.message = "Successfully joined room: " \o room_id_input \o "!"]
    ELSE [g EXCEPT
             !.message = "Room does not exist. Please check the ID or create a new one.",
             !.room_id = NoneStr]

\* lines 423-426: the mode selectbox moved to "Play Against Player"
switch_to_player(g, st) ==
    reset_game([g EXCEPT !.game_mode = "player",
                         !.message = "Multiplayer mode selected. Create or join a room."],
               st)

\* lines 427-432: the mode selectbox moved to "Play Against Computer"
switch_to_computer(g, st) ==
    reset_game([g EXCEPT !.game_mode = "computer",
                         !.room_id = NoneStr,
                         !.player_role = NoneStr,
                         !.message = "Single player mode selected."],
               st)

(***************************************************************************)
(* What the page offers (lines 463-527)                                    *)
(***************************************************************************)
is_player_1_turn(g) == g.current_player = "Player 1"

is_host_turn_in_multiplayer(g) ==
    /\ g.game_mode = "player"
    /\ g.player_role = "host"
    /\ g.current_player = "Player 1"

is_joiner_turn_in_multiplayer(g) ==
    /\ g.game_mode = "player"
    /\ g.player_role = "joiner"
    /\ g.current_player = "Player 2"

\* lines 471-474: the number buttons are drawn
number_buttons_shown(g) ==
    /\ g.winner = NoneStr
    /\ \/ (g.game_mode = "computer" /\ is_player_1_turn(g))
       \/ (g.game_mode = "player" /\ is_host_turn_in_multiplayer(g))
       \/ (g.game_mode = "player" /\ is_joiner_turn_in_multiplayer(g))

\* lines 478-494: the button of num is drawn and not disabled
number_button_enabled(g, num) ==
    LET ui_available_numbers ==
            {n \in Digits : ~InList(n, g.used_numbers)}
        is_used == num \notin ui_available_numbers
    IN number_buttons_shown(g) /\ ~(is_used \/ g.winner # NoneStr)

\* lines 508-520
is_clickable(g, index) ==
    /\ g.board[index] = NoneDigit
    /\ g.selected_number # NoneDigit
    /\ g.winner = NoneStr
    /\ \/ (g.game_mode = "computer" /\ g.current_player = "Player 1")
       \/ (/\ g.game_mode = "player"
           /\ g.player_role = "host"
           /\ g.current_player = "Player 1")
       \/ (/\ g.game_mode = "player"
           /\ g.player_role = "joiner"
           /\ g.current_player = "Player 2")

(***************************************************************************)
(* Inputs explored by the model                                            *)
(***************************************************************************)
\* digits a call of select_number can carry: any used digit (refused) and
\* the first unused one
NumberInputs(g) ==
    {n \in Digits : InList(n, g.used_numbers)}
        \cup DigitChoices(Digits \ {g.used_numbers[k] : k \in 1..Len(g.used_numbers)})

\* cells a call of make_move can carry: any occupied cell (refused) and the
\* first empty ones
CellInputs(g) ==
    {i \in Cells : g.board[i] # NoneDigit}
        \cup CellChoices({i \in Cells : g.board[i] = NoneDigit})

NoCall == [board |-> InitialGameState.board, player_numbers |-> <<>>,
           target_sum |-> 0, result |-> "idle"]

(***************************************************************************)
(* Actions: one per handler, for the session s                             *)
(***************************************************************************)
\* select_number(number) called with any explored digit
SelectNumber(s) ==
    \E number \in NumberInputs(gs[s]) :
        /\ gs' = [gs EXCEPT ![s] = select_number(gs[s], number)]
        /\ UNCHANGED <<store, cw>>

\* make_move(index) called with any explored cell
MakeMove(s) ==
    \E index \in CellInputs(gs[s]) :
        \E r \in make_move(gs[s], store, index) :
            /\ gs' = [gs EXCEPT ![s] = r[1]]
            /\ store' = r[2]
            /\ UNCHANGED cw

\* a click on a number button the page offers
ClickNumber(s) ==
    \E number \in NumberInputs(gs[s]) :
        /\ number_button_enabled(gs[s], number)
        /\ gs' = [gs EXCEPT ![s] = select_number(gs[s], number)]
        /\ UNCHANGED <<store, cw>>

\* a click on a board cell the page offers
ClickCell(s) ==
    \E index \in CellInputs(gs[s]) :
        /\ is_clickable(gs[s], index)
        /\ \E r \in make_move(gs[s], store, index) :
            /\ gs' = [gs EXCEPT ![s] = r[1]]
            /\ store' = r[2]
            /\ UNCHANGED cw

ResetGame(s) ==
    \E r \in reset_game(gs[s], store) :
        /\ gs' = [gs EXCEPT ![s] = r[1]]
        /\ store' = r[2]
        /\ UNCHANGED cw

SwitchToPlayer(s) ==
    /\ gs[s].game_mode = "computer"
    /\ \E r \in switch_to_player(gs[s], store) :
        /\ gs' = [gs EXCEPT ![s] = r[1]]
        /\ store' = r[2]
        /\ UNCHANGED cw

SwitchToComputer(s) ==
    /\ gs[s].game_mode = "player"
    /\ \E r \in switch_to_computer(gs[s], store) :
        /\ gs' = [gs EXCEPT ![s] = r[1]]
        /\ store' = r[2]
        /\ UNCHANGED cw

\* lines 435-445: the room buttons show in player mode without a room
CreateRoom(s) ==
    /\ gs[s].game_mode = "player"
    /\ gs[s].room_id = NoneStr
    /\ \E new_room_id \in RoomIds :
        \E r \in create_room(gs[s], store, new_room_id) :
            /\ gs' = [gs EXCEPT ![s] = r[1]]
            /\ store' = r[2]
            /\ UNCHANGED cw

JoinRoom(s) ==
    /\ gs[s].game_mode = "player"
    /\ gs[s].room_id = NoneStr
    /\ \E room_id_input \in RoomIds \cup {""}, ok \in BOOLEAN :
        /\ gs' = [gs EXCEPT ![s] = join_room(gs[s], store, room_id_input, ok)]
        /\ UNCHANGED <<store, cw>>

\* lines 446-453: the sync button shows in player mode with a room
SyncGameState(s) ==
    /\ gs[s].game_mode = "player"
    /\ gs[s].room_id # NoneStr
    /\ \E ok \in BOOLEAN :
        /\ gs' = [gs EXCEPT ![s] = get_firebase_game_state(gs[s], store, ok)]
        /\ UNCHANGED <<store, cw>>

\* computer_move() called on its own, whatever the mode and the turn
ComputerMove(s) ==
    \E h \in computer_move(gs[s]) :
        /\ gs' = [gs EXCEPT ![s] = h]
        /\ UNCHANGED <<store, cw>>

(***************************************************************************)
(* Spec: one session playing whole games, against the computer or with     *)
(* both players at the same screen (player mode without a room); the       *)
(* handlers are called with accepted and with refused arguments            *)
(***************************************************************************)
Init ==
    /\ gs = [s \in {"s1"} |-> InitialGameState]
    /\ store = <<>>
    /\ cw = NoCall

Next ==
    \/ \E s \in DOMAIN gs : SelectNumber(s)
    \/ \E s \in DOMAIN gs : MakeMove(s)
    \/ \E s \in DOMAIN gs : ResetGame(s)
    \/ \E s \in DOMAIN gs : SwitchToPlayer(s)
    \/ \E s \in DOMAIN gs : SwitchToComputer(s)

Spec == Init /\ [][Next]_vars

(***************************************************************************)
(* SpecPlay: one game, against the computer or with both players at the    *)
(* same screen, in which the players keep selecting unused digits and      *)
(* placing them on empty cells (the fairness conditions) and nobody resets *)
(***************************************************************************)
\* select_number(number) with a digit it accepts
PlaySelect(s) ==
    /\ gs[s].winner = NoneStr
    /\ \E number \in DigitChoices(available_numbers(gs[s])) :
        /\ gs' = [gs EXCEPT ![s] = select_number(gs[s], number)]
        /\ UNCHANGED <<store, cw>>

\* make_move(index) with a cell it accepts
PlayMove(s) ==
    /\ gs[s].winner = NoneStr
    /\ gs[s].selected_number # NoneDigit
    /\ \E index \in CellChoices(available_moves(gs[s])) :
        \E r \in make_move(gs[s], store, index) :
            /\ gs' = [gs EXCEPT ![s] = r[1]]
            /\ store' = r[2]
            /\ UNCHANGED cw

\* the game starts in computer mode, or in player mode after the mode switch
InitPlay ==
    /\ \E r \in {<<InitialGameState, <<>>>>}
                 \cup switch_to_player(InitialGameState, <<>>) :
        /\ gs = [s \in {"s1"} |-> r[1]]
        /\ store = r[2]
    /\ cw = NoCall

NextPlay ==
    \/ \E s \in DOMAIN gs : PlaySelect(s)
    \/ \E s \in DOMAIN gs : PlayMove(s)

SpecPlay ==
    /\ InitPlay
    /\ [][NextPlay]_vars
    /\ WF_vars(\E s \in DOMAIN gs : PlaySelect(s))
    /\ WF_vars(\E s \in DOMAIN gs : PlayMove(s))

(***************************************************************************)
(* SpecCalls: the handlers of Spec and computer_move called on their own,  *)
(* in any mode and at any turn, on boards of fewer than MaxSoloPlaced      *)
(* digits                                                                  *)
(***************************************************************************)
\* number of digits on the board of g
Placed(g) == Cardinality({i \in Cells : g.board[i] # NoneDigit})

NextCalls ==
    \/ \E s \in DOMAIN gs : SelectNumber(s)
    \/ \E s \in DOMAIN gs : Placed(gs[s]) < MaxSoloPlaced /\ MakeMove(s)
    \/ \E s \in DOMAIN gs : Placed(gs[s]) < MaxSoloPlaced /\ ComputerMove(s)
    \/ \E s \in DOMAIN gs : ResetGame(s)
    \/ \E s \in DOMAIN gs : SwitchToPlayer(s)
    \/ \E s \in DOMAIN gs : SwitchToComputer(s)

SpecCalls == Init /\ [][NextCalls]_vars

(***************************************************************************)
(* SpecRoom: two sessions and the shared store; the sessions click what    *)
(* the page offers.  Multiplayer play is unrestricted; play against the    *)
(* computer is kept short and to one session (Spec explores it in full).   *)
(***************************************************************************)
InitRoom ==
    /\ gs = [s \in Sessions |-> InitialGameState]
    /\ store = <<>>
    /\ cw = NoCall

\* the sessions whose number and board buttons SpecRoom clicks
PlaysHere(s) ==
    \/ gs[s].game_mode = "player"
    \/ (s = "s1" /\ Placed(gs[s]) < MaxSoloPlaced)

NextRoom ==
    \/ \E s \in DOMAIN gs : PlaysHere(s) /\ ClickNumber(s)
    \/ \E s \in DOMAIN gs : PlaysHere(s) /\ ClickCell(s)
    \/ \E s \in DOMAIN gs : ResetGame(s)
    \/ \E s \in DOMAIN gs : SwitchToPlayer(s)
    \/ \E s \in DOMAIN gs : SwitchToComputer(s)
    \/ \E s \in DOMAIN gs : CreateRoom(s)
    \/ \E s \in DOMAIN gs : JoinRoom(s)
    \/ \E s \in DOMAIN gs : SyncGameState(s)

SpecRoom == InitRoom /\ [][NextRoom]_vars

(***************************************************************************)
(* SpecWinner: check_winner applied to arbitrary boards, digit lists and   *)
(* targets                                                                 *)
(***************************************************************************)
TestDigits == {0, 1, 2, 5, 6, 7, 9}
TestLists == {<<>>, <<9, 6, 1>>, <<9, 6>>, <<2, 5, 7>>, <<7, 2>>,
              <<9, 2, 6, 5, 1, 7>>}
TestTargets == {16, 14}

\* boards with one line filled from TestDigits, the centre cell left as the
\* line has it or holding a 9
TestBoards ==
    {[i \in Cells |-> IF i = win_conditions[c][1] THEN v[1]
                      ELSE IF i = win_conditions[c][2] THEN v[2]
                      ELSE IF i = win_conditions[c][3] THEN v[3]
                      ELSE IF i = 4 THEN centre ELSE NoneDigit] :
        c \in 1..Len(win_conditions), v \in [1..3 -> TestDigits],
        centre \in {NoneDigit, 9}}

InitWinner ==
    /\ gs = [s \in {"s1"} |-> InitialGameState]
    /\ store = <<>>
    /\ \E b \in TestBoards, p \in TestLists, t \in TestTargets :
        cw = [board |-> b, player_numbers |-> p, target_sum |-> t,
              result |-> "pending"]

CheckWinner ==
    /\ cw.result = "pending"
    /\ cw' = [cw EXCEPT !.result =
                 IF check_winner(cw.board, cw.player_numbers, cw.target_sum)
                 THEN "True" ELSE "False"]
    /\ UNCHANGED <<gs, store>>

NextWinner == CheckWinner

SpecWinner == InitWinner /\ [][NextWinner]_vars

(***************************************************************************)
(* Vocabulary of the properties                                            *)
(***************************************************************************)
ListSet(lst) == {lst[k] : k \in 1..Len(lst)}
NoRepeats(lst) == Cardinality(ListSet(lst)) = Len(lst)
OccupiedCells(g) == {i \in Cells : g.board[i] # NoneDigit}
BoardDigits(g) == {g.board[i] : i \in OccupiedCells(g)}

\* the eight lines: rows, columns, diagonals
Lines == {{0, 1, 2}, {3, 4, 5}, {6, 7, 8},
          {0, 3, 6}, {1, 4, 7}, {2, 5, 8},
          {0, 4, 8}, {2, 4, 6}}

RECURSIVE SumCells(_, _)
SumCells(board, S) ==
    IF S = {} THEN 0
    ELSE LET i == CHOOSE x \in S : TRUE
         IN board[i] + SumCells(board, S \ {i})

\* some line is fully occupied by digits of nums that sum to target
OwnLine(board, nums, target) ==
    \E l \in Lines :
        /\ \A i \in l : board[i] # NoneDigit /\ board[i] \in ListSet(nums)
        /\ SumCells(board, l) = target

\* the fields of the game proper
Core(g) == <<g.board, g.used_numbers, g.player1_numbers, g.player2_numbers,
             g.current_player, g.selected_number, g.winner>>

\* the step of session s is a reset (the button or a mode switch)
IsReset(s) ==
    \E r \in reset_game(gs[s], store)
             \cup switch_to_player(gs[s], store)
             \cup switch_to_computer(gs[s], store) :
        gs'[s] = r[1]

(***************************************************************************)
(* C1: in every reachable state of every session (after selections,        *)
(* placements by players and by the computer, resets, room creation, join  *)
(* and sync) the digits of used_numbers are exactly the digits on the      *)
(* board, and no digit occurs twice in used_numbers or on the board.       *)
(***************************************************************************)
C1_UsedNumbersMatchBoard ==
    \A s \in DOMAIN gs :
        /\ ListSet(gs[s].used_numbers) = BoardDigits(gs[s])
        /\ NoRepeats(gs[s].used_numbers)
        /\ Cardinality(BoardDigits(gs[s])) = Cardinality(OccupiedCells(gs[s]))

C1_Witness ==
    \E s \in DOMAIN gs :
        /\ gs[s].message = "Game state synced from Firebase."
        /\ gs[s].player_role = "joiner"
        /\ Len(gs[s].used_numbers) >= 1

(***************************************************************************)
(* C2: a digit on the board stays in used_numbers until a reset, is never  *)
(* accepted by a later select_number, and is never placed again (by a      *)
(* player or by the computer); a full board holds each digit 1..9 exactly  *)
(* once.                                                                   *)
(***************************************************************************)
C2_Step(s) ==
    \A d \in Digits :
        InList(d, gs[s].used_numbers) =>
            \/ IsReset(s)
            \/ /\ InList(d, gs'[s].used_numbers)
               /\ gs'[s].selected_number # d
               /\ {i \in Cells : gs'[s].board[i] = d}
                      = {i \in Cells : gs[s].board[i] = d}

C2_FullBoard(g) ==
    Cardinality(OccupiedCells(g)) = 9 =>
        \A d \in Digits : Cardinality({i \in Cells : g.board[i] = d}) = 1

C2_PlacedDigitStaysUsed ==
    /\ [](\A s \in DOMAIN gs : C2_FullBoard(gs[s]))
    /\ [][\A s \in DOMAIN gs : C2_Step(s)]_vars

C2_Witness ==
    \E s \in DOMAIN gs :
        /\ Cardinality(OccupiedCells(gs[s])) = 9
        /\ gs[s].message =
               "This number has already been used. Please select another."

(***************************************************************************)
(* C3: the two players' digit lists are disjoint, hold no repeats, and     *)
(* together hold exactly the digits on the board.                          *)
(***************************************************************************)
C3_PlayerListsPartitionBoard ==
    \A s \in DOMAIN gs :
        /\ ListSet(gs[s].player1_numbers) \cap ListSet(gs[s].player2_numbers) = {}
        /\ NoRepeats(gs[s].player1_numbers)
        /\ NoRepeats(gs[s].player2_numbers)
        /\ ListSet(gs[s].player1_numbers) \cup ListSet(gs[s].player2_numbers)
               = BoardDigits(gs[s])

C3_Witness ==
    \E s \in DOMAIN gs :
        /\ gs[s].game_mode = "computer"
        /\ Len(gs[s].player1_numbers) >= 2
        /\ Len(gs[s].player2_numbers) >= 2

(***************************************************************************)
(* C4: when winner names Player 1, some line is fully occupied by Player   *)
(* 1's digits and sums to 16; when it names Player 2 or the computer, some *)
(* line is fully occupied by Player 2's digits and sums to 14.             *)
(***************************************************************************)
C4_WinnerHasOwnLine ==
    \A s \in DOMAIN gs :
        /\ gs[s].winner = P1WINS =>
               OwnLine(gs[s].board, gs[s].player1_numbers, 16)
        /\ gs[s].winner \in {P2WINS, COMPUTERWINS} =>
               OwnLine(gs[s].board, gs[s].player2_numbers, 14)

C4_Witness ==
    \E s \in DOMAIN gs : gs[s].winner = COMPUTERWINS

(***************************************************************************)
(* C5: check_winner is true exactly when one of the eight lines has its    *)
(* three cells occupied, all three digits in the player's list, and the    *)
(* digits summing to the target; a full line holding a digit that is not   *)
(* the player's is no win even when its sum is the target.                 *)
(***************************************************************************)
C5_CheckWinnerIffOwnLine ==
    cw.result \in {"True", "False"} =>
        (cw.result = "True"
            <=> OwnLine(cw.board, cw.player_numbers, cw.target_sum))

C5_Witness ==
    /\ cw.result = "False"
    /\ \E l \in Lines :
        /\ \A i \in l : cw.board[i] # NoneDigit
        /\ SumCells(cw.board, l) = cw.target_sum
        /\ \E i \in l : cw.board[i] \notin ListSet(cw.player_numbers)

(***************************************************************************)
(* C6: a full board always has a winner set; a full board on which neither *)
(* player has a winning line is a draw; and winner is the draw only on a   *)
(* full board on which neither player has a winning line.                  *)
(***************************************************************************)
C6_FullBoardIsTerminal ==
    \A s \in DOMAIN gs :
        LET g == gs[s]
            full == Cardinality(OccupiedCells(g)) = 9
            line == \/ OwnLine(g.board, g.player1_numbers, 16)
                    \/ OwnLine(g.board, g.player2_numbers, 14)
        IN /\ full => g.winner # NoneStr
           /\ (full /\ ~line) => g.winner = DRAW
           /\ g.winner = DRAW => (full /\ ~line)

C6_Witness ==
    \E s \in DOMAIN gs : gs[s].winner = DRAW /\ gs[s].game_mode = "computer"

(***************************************************************************)
(* C7: when the placement that fills the ninth cell completes a winning    *)
(* line of the player who made it, the result is that player's win and not *)
(* a draw.                                                                 *)
(***************************************************************************)
C7_Step(s) ==
    LET g == gs[s]
        h == gs'[s]
        lastIsP1 == InList(h.used_numbers[Len(h.used_numbers)], h.player1_numbers)
    IN (Cardinality(OccupiedCells(g)) < 9 /\ Cardinality(OccupiedCells(h)) = 9) =>
          /\ (lastIsP1 /\ OwnLine(h.board, h.player1_numbers, 16))
                 => h.winner = P1WINS
          /\ (~lastIsP1 /\ OwnLine(h.board, h.player2_numbers, 14))
                 => h.winner \in {P2WINS, COMPUTERWINS}

C7_WinBeatsDraw == [][\A s \in DOMAIN gs : C7_Step(s)]_vars

C7_Witness ==
    \E s \in DOMAIN gs :
        gs[s].winner = P1WINS /\ Cardinality(OccupiedCells(gs[s])) = 9

(***************************************************************************)
(* C8: a placement that completes a line of the mover's own digits summing *)
(* to the mover's target sets winner to the mover in the same operation,   *)
(* full board or not; the declared winner made the last placement; after a *)
(* winning or drawing Player 1 move the computer places nothing.           *)
(***************************************************************************)
C8_LastMoverWon(g) ==
    /\ g.winner = P1WINS =>
           /\ g.used_numbers # <<>> /\ g.player1_numbers # <<>>
           /\ g.used_numbers[Len(g.used_numbers)]
                  = g.player1_numbers[Len(g.player1_numbers)]
    /\ g.winner \in {P2WINS, COMPUTERWINS} =>
           /\ g.used_numbers # <<>> /\ g.player2_numbers # <<>>
           /\ g.used_numbers[Len(g.used_numbers)]
                  = g.player2_numbers[Len(g.player2_numbers)]

C8_Step(s) ==
    LET g == gs[s]
        h == gs'[s]
    IN (g.winner = NoneStr /\ Len(h.used_numbers) > Len(g.used_numbers)) =>
          /\ OwnLine(h.board, h.player1_numbers, 16) => h.winner = P1WINS
          /\ OwnLine(h.board, h.player2_numbers, 14)
                 => h.winner \in {P2WINS, COMPUTERWINS}
          /\ h.winner = P1WINS =>
                 /\ g.current_player = "Player 1"
                 /\ Len(h.used_numbers) = Len(g.used_numbers) + 1
                 /\ h.player2_numbers = g.player2_numbers
          /\ (g.game_mode = "computer" /\ h.winner = DRAW) =>
                 h.player2_numbers = g.player2_numbers

C8_MoverWinsAtOnce ==
    /\ [](\A s \in DOMAIN gs : C8_LastMoverWon(gs[s]))
    /\ [][\A s \in DOMAIN gs : C8_Step(s)]_vars

C8_Witness ==
    \E s \in DOMAIN gs :
        /\ gs[s].winner = P1WINS
        /\ gs[s].game_mode = "computer"
        /\ Cardinality(OccupiedCells(gs[s])) < 9

(***************************************************************************)
(* C9: once winner is set, board, used_numbers, both digit lists,          *)
(* current_player, selected_number and winner keep their values through    *)
(* every later select_number and make_move, until a reset.                 *)
(***************************************************************************)
C9_Step(s) ==
    gs[s].winner # NoneStr =>
        (IsReset(s) \/ Core(gs'[s]) = Core(gs[s]))

C10_Step(s) ==
    LET g == gs[s]
        h == gs'[s]
        kept == /\ Core(h) = Core(g)
                /\ store' = store
                /\ h.game_mode = g.game_mode
                /\ h.room_id = g.room_id
                /\ h.player_role = g.player_role
    IN /\ \A index \in Cells :
            (/\ g.board[index] # NoneDigit \/ g.selected_number = NoneDigit
             /\ <<h, store'>> \in make_move(g, store, index))
                => kept
       /\ \A number \in Digits :
            (/\ InList(number, g.used_numbers)
             /\ h = select_number(g, number))
                => kept

C11_Alternate(g) ==
    /\ \A k \in 1..Len(g.used_numbers) :
           IF k % 2 = 1
           THEN InList(g.used_numbers[k], g.player1_numbers)
           ELSE InList(g.used_numbers[k], g.player2_numbers)
    /\ Len(g.player1_numbers) - Len(g.player2_numbers) \in {0, 1}
    /\ g.used_numbers = <<>> => g.current_player = "Player 1"
    /\ g.winner = NoneStr =>
           g.current_player = IF Len(g.used_numbers) % 2 = 0
                              THEN "Player 1" ELSE "Player 2"

C11_Step(s) ==
    LET g == gs[s]
        h == gs'[s]
        last == h.used_numbers[Len(h.used_numbers)]
    IN (/\ g.winner = NoneStr
        /\ Len(h.used_numbers) > Len(g.used_numbers)
        /\ h.winner = NoneStr)
           => /\ h.selected_number = NoneDigit
              /\ h.current_player = IF InList(last, h.player1_numbers)
                                    THEN "Player 2" ELSE "Player 1"

C11_TurnsAlternate ==
    /\ [](\A s \in DOMAIN gs : C11_Alternate(gs[s]))
    /\ [][\A s \in DOMAIN gs : C11_Step(s)]_vars

C11_Witness ==
    \E s \in DOMAIN gs :
        /\ gs[s].game_mode = "player"
        /\ gs[s].winner = NoneStr
        /\ Len(gs[s].player2_numbers) = 2
        /\ gs[s].current_player = "Player 1"

(***************************************************************************)
(* C12: whatever it draws, the computer places a digit that was not in     *)
(* used_numbers into a cell that was empty, appends it to used_numbers and *)
(* to player2_numbers, changes no other cell, and then declares its win,   *)
(* the draw or Player 1's turn as a human placement would.                 *)
(***************************************************************************)
C12_Step(s) ==
    LET g == gs[s]
        h == gs'[s]
        n == Len(g.used_numbers)
        d == h.player2_numbers[Len(h.player2_numbers)]
        own == h.used_numbers[n + 1]
        changed == {i \in Cells : h.board[i] # g.board[i]}
    IN (/\ g.game_mode = "computer"
        /\ Len(h.player2_numbers) > Len(g.player2_numbers))
           => /\ h.player2_numbers = Append(g.player2_numbers, d)
              /\ h.used_numbers = g.used_numbers \o <<own, d>>
              /\ h.player1_numbers = Append(g.player1_numbers, own)
              /\ d \in Digits /\ ~InList(d, g.used_numbers) /\ d # own
              /\ Cardinality(changed) = 2
              /\ \A i \in changed : g.board[i] = NoneDigit
              /\ {h.board[i] : i \in changed} = {own, d}
              /\ IF OwnLine(h.board, h.player2_numbers, 14)
                 THEN h.winner = COMPUTERWINS
                 ELSE IF Cardinality(OccupiedCells(h)) = 9
                 THEN h.winner = DRAW
                 ELSE /\ h.winner = NoneStr
                      /\ h.current_player = "Player 1"

C12_ComputerMoveIsLegal == [][\A s \in DOMAIN gs : C12_Step(s)]_vars

C12_Witness ==
    \E s \in DOMAIN gs :
        /\ gs[s].game_mode = "computer"
        /\ Len(gs[s].player2_numbers) = 3
        /\ gs[s].message = "Player 1's turn."

(***************************************************************************)
(* C13: computer_move called when it is not the computer's turn (the       *)
(* current player is not Player 2, or the mode is not the game against the *)
(* computer) is refused and leaves the game state as it was.               *)
(***************************************************************************)
C13_Step(s) ==
    LET g == gs[s]
        h == gs'[s]
        NotComputerTurn == \/ g.current_player # "Player 2"
                           \/ g.game_mode # "computer"
    IN (NotComputerTurn /\ h \in computer_move(g)) => h = g

C13_NotComputerTurnRefused == [][\A s \in DOMAIN gs : C13_Step(s)]_vars

(***************************************************************************)
(* C14: from any state reset_game produces the initial game (empty board,  *)
(* no used digits, empty digit lists, no selected number, no winner,       *)
(* Player 1 to move, targets 16 and 14); the reset button keeps game_mode  *)
(* and room_id (and player_role), so a room "game_4521" in player mode     *)
(* stays "game_4521" in player mode.                                       *)
(***************************************************************************)
C14_IsInitialGame(g) ==
    /\ \A i \in Cells : g.board[i] = NoneDigit
    /\ g.used_numbers = <<>>
    /\ g.player1_numbers = <<>>
    /\ g.player2_numbers = <<>>
    /\ g.selected_number = NoneDigit
    /\ g.winner = NoneStr
    /\ g.current_player = "Player 1"
    /\ g.target1 = 16
    /\ g.target2 = 14

C14_Step(s) ==
    LET g == gs[s]
        h == gs'[s]
        button == \E r \in reset_game(g, store) : h = r[1] /\ store' = r[2]
    IN /\ IsReset(s) => C14_IsInitialGame(h)
       /\ button => /\ h.game_mode = g.game_mode
                    /\ h.room_id = g.room_id
                    /\ h.player_role = g.player_role

C14_ResetGivesInitialGame == [][\A s \in DOMAIN gs : C14_Step(s)]_vars

C14_Witness ==
    \E s \in DOMAIN gs, t \in DOMAIN gs :
        /\ gs[s].game_mode = "player"
        /\ gs[s].room_id = "game_4521"
        /\ C14_IsInitialGame(gs[s])
        /\ gs[s].message = "Game state updated in Firebase."
        /\ "game_4521" \in DOMAIN store
        /\ store["game_4521"].message = "Game reset. Waiting for players."
        /\ gs[t].room_id = "game_4521"
        /\ gs[t].used_numbers # <<>>

(***************************************************************************)
(* C15: in every reachable state of every session, also after a sync or a  *)
(* join, selected_number is absent or a digit that is not in used_numbers. *)
(***************************************************************************)
C15_SelectedIsUnused ==
    \A s \in DOMAIN gs :
        \/ gs[s].selected_number = NoneDigit
        \/ /\ gs[s].selected_number \in Digits
           /\ ~InList(gs[s].selected_number, gs[s].used_numbers)

C15_Witness ==
    \E s \in DOMAIN gs :
        /\ gs[s].player_role = "joiner"
        /\ gs[s].selected_number # NoneDigit
        /\ gs[s].used_numbers # <<>>

(***************************************************************************)
(* C16: after a sync that finds data for the room, the local board,        *)
(* used_numbers, both digit lists, current_player, selected_number and     *)
(* winner are those of the snapshot last pushed to the room (by either     *)
(* session); nothing of the previous local game is left.                   *)
(***************************************************************************)
C16_Step(s) ==
    LET g == gs[s]
        h == gs'[s]
    IN /\ (h # g /\ h.message = "Game state synced from Firebase.")
            => /\ g.room_id \in DOMAIN store
               /\ Core(h) = Core(store[g.room_id])
       /\ (/\ g.room_id \in DOMAIN store
           /\ h = get_firebase_game_state(g, store, TRUE))
            => Core(h) = Core(store[g.room_id])

C16_SyncTakesLastPush == [][\A s \in DOMAIN gs : C16_Step(s)]_vars

C16_Witness ==
    \E s \in DOMAIN gs, t \in DOMAIN gs :
        /\ s # t
        /\ gs[s].message = "Game state synced from Firebase."
        /\ gs[t].message = "Game state updated in Firebase."
        /\ gs[s].room_id = gs[t].room_id
        /\ gs[s].player2_numbers # <<>>
        /\ Core(gs[s]) = Core(gs[t])

(***************************************************************************)
(* C17: in player mode with a room, every accepted make_move and every     *)
(* reset_game pushes the resulting game before it returns: unless the push *)
(* itself fails, the room then stores the local board, used_numbers, digit *)
(* lists, current_player and winner.  A session in computer mode never     *)
(* writes to the store.                                                    *)
(***************************************************************************)
C17_Shared(g) == <<g.board, g.used_numbers, g.player1_numbers,
                    g.player2_numbers, g.current_player, g.winner>>

C17_Step(s) ==
    LET g == gs[s]
        h == gs'[s]
        inRoom == /\ g.game_mode = "player" /\ g.room_id # NoneStr
                  /\ h.game_mode = "player" /\ h.room_id = g.room_id
        fetched == h.message \in
                      {"Game state synced from Firebase.",
                       "Error fetching from Firebase"}
        placed == Len(h.used_numbers) > Len(g.used_numbers)
        reset == h # g /\ C14_IsInitialGame(h)
        pushed == \/ h.message = "Error updating Firebase"
                  \/ /\ g.room_id \in DOMAIN store'
                     /\ C17_Shared(store'[g.room_id]) = C17_Shared(h)
    IN /\ (inRoom /\ ~fetched /\ (placed \/ reset)) => pushed
       /\ (h # g /\ g.game_mode = "computer") => store' = store

C17_RoomMovesArePushed == [][\A s \in DOMAIN gs : C17_Step(s)]_vars

C17_Witness ==
    \E s \in DOMAIN gs, t \in DOMAIN gs :
        /\ gs[s].game_mode = "player"
        /\ gs[s].room_id \in DOMAIN store
        /\ gs[s].message = "Game state updated in Firebase."
        /\ gs[s].used_numbers # <<>>
        /\ C17_Shared(store[gs[s].room_id]) = C17_Shared(gs[s])
        /\ gs[t].game_mode = "computer"
        /\ Len(gs[t].used_numbers) = 2

(***************************************************************************)
(* C18: a host and a joiner of one room can both change their game (a move *)
(* or a reset) with no sync in between; the later push then replaces the   *)
(* earlier one: the earlier session's digits are gone from the store (and  *)
(* so from whatever is synced later), and no merge or conflict detection   *)
(* stands in the way.  Stated as a property of every push: whatever the    *)
(* room held, after a push that did not fail it holds the pusher's game    *)
(* and none of the digits the pusher's board lacks; the state in which a   *)
(* session's pushed move has been overwritten is the witness.              *)
(***************************************************************************)
C18_Step(s) ==
    LET g == gs[s]
        h == gs'[s]
        room == h.room_id
    IN (/\ h # g
        /\ h.message = "Game state updated in Firebase."
        /\ g.room_id \in DOMAIN store)
           => /\ room \in DOMAIN store'
              /\ store'[room].board = h.board
              /\ store'[room].used_numbers = h.used_numbers
              /\ \A d \in BoardDigits(store[g.room_id]) \ BoardDigits(h) :
                     d \notin BoardDigits(store'[room])

C18_LaterPushOverwrites == [][\A s \in DOMAIN gs : C18_Step(s)]_vars

C18_Witness ==
    \E s \in DOMAIN gs, t \in DOMAIN gs :
        /\ s # t
        /\ gs[s].room_id \in DOMAIN store
        /\ gs[t].room_id = gs[s].room_id
        /\ {gs[s].player_role, gs[t].player_role} = {"host", "joiner"}
        /\ gs[s].message = "Game state updated in Firebase."
        /\ gs[t].message = "Game state updated in Firebase."
        /\ store[gs[s].room_id].board = gs[t].board
        /\ BoardDigits(gs[s]) \ BoardDigits(store[gs[s].room_id]) # {}

(***************************************************************************)
(* C19: when the push fails during make_move or reset_game in a room, the  *)
(* move or the reset stays applied locally (board, used_numbers, digit     *)
(* lists, current_player and winner are those after the move) and the      *)
(* store keeps what it held; when the read of a sync fails, the local game *)
(* state is unchanged.                                                     *)
(***************************************************************************)
C19_MoveApplied(g, h) ==
    \E i \in Cells :
        /\ g.board[i] = NoneDigit
        /\ g.selected_number # NoneDigit
        /\ h.board = [g.board EXCEPT ![i] = g.selected_number]
        /\ h.used_numbers = Append(g.used_numbers, g.selected_number)
        /\ IF g.current_player = "Player 1"
           THEN /\ h.player1_numbers
                     = Append(g.player1_numbers, g.selected_number)
                /\ h.player2_numbers = g.player2_numbers
           ELSE /\ h.player2_numbers
                     = Append(g.player2_numbers, g.selected_number)
                /\ h.player1_numbers = g.player1_numbers
        /\ \/ h.winner # NoneStr /\ h.current_player = g.current_player
           \/ h.winner = NoneStr /\ h.current_player # g.current_player

C19_Step(s) ==
    LET g == gs[s]
        h == gs'[s]
    IN /\ (h # g /\ h.message = "Error updating Firebase")
            => /\ store' = store
               /\ \/ C19_MoveApplied(g, h)
                  \/ C14_IsInitialGame(h)
                  \/ (g.room_id = NoneStr /\ Core(h) = Core(g))
       /\ (h # g /\ h.message = "Error fetching from Firebase")
            => /\ store' = store
               /\ h = [g EXCEPT !.message = "Error fetching from Firebase"]

C19_FailedPushKeepsMove == [][\A s \in DOMAIN gs : C19_Step(s)]_vars

C19_Witness ==
    \E s \in DOMAIN gs :
        /\ gs[s].message = "Error updating Firebase"
        /\ gs[s].room_id \in DOMAIN store
        /\ gs[s].player1_numbers # <<>>
        /\ gs[s].current_player = "Player 2"
        /\ store[gs[s].room_id].used_numbers = <<>>

(***************************************************************************)
(* C20: in a room the host plays Player 1 and the joiner plays Player 2:   *)
(* through moves, resets and syncs the session that created the room keeps *)
(* the role host and the session that joined keeps the role joiner, so a   *)
(* digit placed by the former lands in player1_numbers and a digit placed  *)
(* by the latter in player2_numbers.  Stated on steps: a session that      *)
(* holds a role and stays in its room keeps that role.                     *)
(***************************************************************************)
C20_Step(s) ==
    LET g == gs[s]
        h == gs'[s]
    IN (/\ g.player_role \in {"host", "joiner"}
        /\ g.room_id # NoneStr
        /\ h.room_id = g.room_id)
           => h.player_role = g.player_role

C20_RolesAreKept == [][\A s \in DOMAIN gs : C20_Step(s)]_vars

(***************************************************************************)
(* C21: in a room with a host and a joiner, whenever the game is not over  *)
(* and both sessions hold the store's latest snapshot, exactly one of the  *)
(* two is offered the number buttons (the one whose role matches           *)
(* current_player); there is no synced, unfinished game in which neither   *)
(* session can move.                                                       *)
(***************************************************************************)
C21_Synced(g, st) ==
    /\ g.game_mode = "player"
    /\ g.room_id \in DOMAIN st
    /\ g.player_role \in {"host", "joiner"}
    /\ Core(g) = Core(st[g.room_id])

\* s and t are the host and the joiner of one room and s takes a step that
\* leaves both with the room's snapshot
C21_Step(s, t) ==
    (/\ s # t
     /\ {gs[s].player_role, gs[t].player_role} = {"host", "joiner"}
     /\ gs[s].room_id = gs[t].room_id
     /\ gs'[s] # gs[s]
     /\ gs'[s].room_id = gs'[t].room_id
     /\ C21_Synced(gs'[s], store') /\ C21_Synced(gs'[t], store')
     /\ gs'[s].winner = NoneStr)
        => (number_buttons_shown(gs'[s]) <=> ~number_buttons_shown(gs'[t]))

C21_ExactlyOneCanMove ==
    [][\A s \in DOMAIN gs, t \in DOMAIN gs : C21_Step(s, t)]_vars

(***************************************************************************)
(* C22: against the computer, an accepted make_move that does not end the  *)
(* game includes exactly one placement by the computer; so after every     *)
(* make_move winner is set or Player 1 is to move, the ninth digit is      *)
(* always placed by Player 1, and the computer never has to move on a full *)
(* board.                                                                  *)
(***************************************************************************)
C22_AfterMove(g) ==
    g.game_mode = "computer" =>
        /\ g.winner # NoneStr \/ g.current_player = "Player 1"
        /\ g.winner = NoneStr =>
               Len(g.player2_numbers) = Len(g.player1_numbers)
        /\ Len(g.used_numbers) = 9 =>
               InList(g.used_numbers[9], g.player1_numbers)
        /\ Len(g.player2_numbers) <= 4

C22_Step(s) ==
    LET g == gs[s]
        h == gs'[s]
        own == Len(h.player1_numbers) - Len(g.player1_numbers)
        reply == Len(h.player2_numbers) - Len(g.player2_numbers)
    IN (/\ g.game_mode = "computer"
        /\ Len(h.used_numbers) > Len(g.used_numbers))
           => /\ own = 1
              /\ IF h.winner \in {P1WINS, DRAW} THEN reply = 0 ELSE reply = 1
              /\ reply = 1 => Cardinality(OccupiedCells(g)) <= 7
              /\ h.winner = DRAW => Cardinality(OccupiedCells(h)) = 9

C22_ComputerRepliesOnce ==
    /\ [](\A s \in DOMAIN gs : C22_AfterMove(gs[s]))
    /\ [][\A s \in DOMAIN gs : C22_Step(s)]_vars

C22_Witness ==
    \E s \in DOMAIN gs :
        /\ gs[s].game_mode = "computer"
        /\ gs[s].winner = NoneStr
        /\ Len(gs[s].used_numbers) = 8
        /\ gs[s].current_player = "Player 1"
        /\ gs[s].selected_number # NoneDigit

(***************************************************************************)
(* C23: every game ends.  Within a game at most 9 digits are placed (at    *)
(* most 5 accepted make_move calls against the computer), every placement  *)
(* strictly increases the number of occupied cells, and when the players   *)
(* keep making legal selections and placements the game reaches a state    *)
(* with winner set.                                                        *)
(***************************************************************************)
C23_Bounded(g) ==
    /\ Len(g.used_numbers) <= 9
    /\ Cardinality(OccupiedCells(g)) = Len(g.used_numbers)
    /\ g.game_mode = "computer" => Len(g.player1_numbers) <= 5

C23_Step(s) ==
    LET g == gs[s]
        h == gs'[s]
    IN /\ Len(h.used_numbers) > Len(g.used_numbers) =>
              Cardinality(OccupiedCells(h)) > Cardinality(OccupiedCells(g))
       /\ h.board # g.board => Len(h.used_numbers) > Len(g.used_numbers)

C23_EveryGameEnds ==
    /\ [](\A s \in DOMAIN gs : C23_Bounded(gs[s]))
    /\ [][\A s \in DOMAIN gs : C23_Step(s)]_vars
    /\ <>(\A s \in DOMAIN gs : gs[s].winner # NoneStr)

C23_Witness ==
    \E s \in DOMAIN gs :
        /\ gs[s].game_mode = "player"
        /\ gs[s].winner = DRAW
        /\ Len(gs[s].player1_numbers) = 5
=============================================================================
